---- MODULE Spec2Model ----
(***************************************************************************)
(* A model of the Huffman file compressor of src/main.py: HuffmanNode,     *)
(* HuffmanCompressor (_build_frequency_table, _build_huffman_tree,         *)
(* _generate_codes, _encode_data, _decode_data, compress_file,             *)
(* decompress_file) and the heapq operations the tree build relies on.     *)
(*                                                                         *)
(* Representation:                                                         *)
(*   bytes / bytearray      sequences of integers 0..255                   *)
(*   bit strings ("0101")   sequences of the integers 0 and 1              *)
(*   Python None            the record None                                *)
(*   HuffmanNode            a record [char, freq, left, right]; a node      *)
(*                          whose char is None has char = NoChar           *)
(*   dict                   a function; Counter(data) a sequence of pairs  *)
(*                          <<char, count>> in first-occurrence order,     *)
(*                          which is the order .items() iterates in        *)
(*   list indices           Python position p is TLA+ position p + 1       *)
(*   a file                 a record [kind |-> "absent"], [kind |-> "raw", *)
(*                          bytes |-> ...] or [kind |-> "pickle", obj      *)
(*                          |-> ...]; pickle.dump / pickle.load keep the   *)
(*                          object graph (node fields and dict entries)    *)
(***************************************************************************)
EXTENDS Integers, Sequences, FiniteSets, TLC

\* ------------------------------------------------------------------ bounds
MaxLen == 5
NumBytes == 5
MaxLenSmall == 2

Bytes == 0..(NumBytes - 1)

\* the concrete scenario b"aaaabbbccd"
Scenario == <<97, 97, 97, 97, 98, 98, 98, 99, 99, 100>>

SeqsUpTo(S, n) == UNION {[1..k -> S] : k \in 0..n}

\* the input files of a single compress / decompress run
Inputs == SeqsUpTo(Bytes, MaxLen) \cup {Scenario}

\* the input buffers of two concurrent invocations, and of tampered containers
SmallInputs == SeqsUpTo({0, 1}, MaxLenSmall) \ {<<>>}

\* the input files a user offers in a session of main()
SessionInputs == SeqsUpTo({0, 1}, MaxLenSmall) \cup {<<2, 0, 1, 0>>}

\* ------------------------------------------------------------- HuffmanNode
NoChar == -1
None == [none |-> TRUE]

HuffmanNode(char, freq, left, right) ==
    [char |-> char, freq |-> freq, left |-> left, right |-> right]

\* a comparison turned round
lt_reversed(self, other) == self.freq > other.freq

\* HuffmanNode.__lt__
lt(self, other) == self.freq < other.freq

\* ------------------------------------------------------------------- heapq
RECURSIVE siftdown_loop(_, _, _, _)
siftdown_loop(heap, startpos, pos, newitem) ==
    IF pos > startpos
    THEN LET parentpos == (pos - 1) \div 2
             parent == heap[parentpos + 1]
         IN IF lt(newitem, parent)
            THEN siftdown_loop([heap EXCEPT ![pos + 1] = parent],
                               startpos, parentpos, newitem)
            ELSE [heap EXCEPT ![pos + 1] = newitem]
    ELSE [heap EXCEPT ![pos + 1] = newitem]

\* heapq._siftdown(heap, startpos, pos)
siftdown(heap, startpos, pos) ==
    siftdown_loop(heap, startpos, pos, heap[pos + 1])

\* the child _siftup moves up: the right one unless the left one is smaller
siftup_child(heap, childpos, endpos) ==
    LET rightpos == childpos + 1
    IN IF rightpos < endpos /\ ~lt(heap[childpos + 1], heap[rightpos + 1])
       THEN rightpos
       ELSE childpos

RECURSIVE siftup_loop(_, _, _)
siftup_loop(heap, pos, newitem) ==
    LET endpos == Len(heap)
        childpos == 2 * pos + 1
    IN IF childpos < endpos
       THEN LET c == siftup_child(heap, childpos, endpos)
            IN siftup_loop([heap EXCEPT ![pos + 1] = heap[c + 1]], c, newitem)
       ELSE <<[heap EXCEPT ![pos + 1] = newitem], pos>>

\* heapq._siftup(heap, pos)
siftup(heap, pos) ==
    LET r == siftup_loop(heap, pos, heap[pos + 1])
    IN siftdown(r[1], pos, r[2])

\* list.append in the place of heappush
heappush_append(heap, item) == Append(heap, item)

\* heapq.heappush(heap, item)
heappush(heap, item) ==
    siftdown(Append(heap, item), 0, Len(heap))

\* heapq.heappop(heap): the item returned, and the heap left behind
heappop_item(heap) ==
    IF Len(heap) > 1 THEN heap[1] ELSE heap[Len(heap)]

heappop_heap(heap) ==
    LET lastelt == heap[Len(heap)]
        rest == SubSeq(heap, 1, Len(heap) - 1)
    IN IF Len(rest) > 0
       THEN siftup([rest EXCEPT ![1] = lastelt], 0)
       ELSE rest

\* -------------------------------------------------------- frequency table
RECURSIVE CounterAdd(_, _, _)
CounterAdd(items, i, byte) ==
    IF i > Len(items) THEN Append(items, <<byte, 1>>)
    ELSE IF items[i][1] = byte
         THEN [items EXCEPT ![i] = <<byte, items[i][2] + 1>>]
         ELSE CounterAdd(items, i + 1, byte)

RECURSIVE Counter(_, _)
Counter(data, n) ==
    IF n = 0 THEN <<>> ELSE CounterAdd(Counter(data, n - 1), 1, data[n])

\* HuffmanCompressor._build_frequency_table
_build_frequency_table(data) == Counter(data, Len(data))

\* ------------------------------------------------------ _build_huffman_tree
\* lines 36-38: one leaf per item of the table, pushed in iteration order
RECURSIVE push_leaves(_, _, _)
push_leaves(heap, freq_table, i) ==
    IF i > Len(freq_table) THEN heap
    ELSE push_leaves(
             heappush(heap, HuffmanNode(freq_table[i][1], freq_table[i][2], None, None)),
             freq_table, i + 1)

\* lines 41-44: the single character case
single_root(heap) ==
    HuffmanNode(NoChar, heap[1].freq, heappop_item(heap), None)

\* a parent that takes the weight of one child
merge_parent_left(left, right) ==
    HuffmanNode(NoChar, left.freq, left, right)

\* line 51-53: the parent of the two nodes popped
merge_parent(left, right) ==
    HuffmanNode(NoChar, left.freq + right.freq, left, right)

\* lines 48-55: one round of the loop
merge_step(heap) ==
    LET left == heappop_item(heap)
        h1 == heappop_heap(heap)
        right == heappop_item(h1)
        h2 == heappop_heap(h1)
    IN heappush(h2, merge_parent(left, right))

RECURSIVE merge_loop(_)
merge_loop(heap) ==
    IF Len(heap) > 1 THEN merge_loop(merge_step(heap)) ELSE heap

\* HuffmanCompressor._build_huffman_tree, for a non-empty table (on an empty
\* one heap[0] raises IndexError; compress_file never passes one)
_build_huffman_tree(freq_table) ==
    LET heap == push_leaves(<<>>, freq_table, 1)
    IN IF Len(heap) = 1 THEN single_root(heap)
       ELSE merge_loop(heap)[1]

\* ---------------------------------------------------------- _generate_codes
\* dict update: the entries of later override those of earlier
dict_update(earlier, later) == later @@ earlier

EmptyDict == [x \in {} |-> <<>>]

\* the single character case forgotten
leaf_code_raw(code) == code

\* line 68: code if code else "0"
leaf_code(code) == IF code # <<>> THEN code ELSE <<0>>

\* "0" appended on both branches
branch_code_left(code, bit) == Append(code, 0)

\* lines 72, 74: code + "0", code + "1"
branch_code(code, bit) == Append(code, bit)

\* line 67: node.char is not None
is_leaf(node) == node.char # NoChar

RECURSIVE traverse(_, _)
traverse(node, code) ==
    IF is_leaf(node)
    THEN (node.char :> leaf_code(code))
    ELSE LET l == IF node.left # None
                  THEN traverse(node.left, branch_code(code, 0)) ELSE EmptyDict
             r == IF node.right # None
                  THEN traverse(node.right, branch_code(code, 1)) ELSE EmptyDict
         IN dict_update(l, r)

\* HuffmanCompressor._generate_codes
_generate_codes(root) ==
    IF root = None THEN EmptyDict ELSE traverse(root, <<>>)

\* line 134: {v: k for k, v in self.codes.items()}
reverse_of(codes) ==
    [v \in {codes[k] : k \in DOMAIN codes} |->
        CHOOSE k \in DOMAIN codes : codes[k] = v]

\* ------------------------------------------------- _encode_data / _decode_data
\* codes[byte] raises KeyError for a byte the code book lacks
encodable(data, codes) == \A i \in 1..Len(data) : data[i] \in DOMAIN codes

RECURSIVE encode_loop(_, _, _)
encode_loop(data, codes, n) ==
    IF n = 0 THEN <<>> ELSE encode_loop(data, codes, n - 1) \o codes[data[n]]

\* HuffmanCompressor._encode_data (where encodable)
_encode_data(data, codes) == encode_loop(data, codes, Len(data))

\* the loop of lines 94-102; current.char on None raises AttributeError
RECURSIVE decode_loop(_, _, _, _, _)
decode_loop(encoded_data, root, i, current, decoded) ==
    IF i > Len(encoded_data) THEN [status |-> "ok", decoded |-> decoded]
    ELSE LET next == IF encoded_data[i] = 0 THEN current.left ELSE current.right
         IN IF next = None
            THEN [status |-> "AttributeError", decoded |-> decoded]
            ELSE IF is_leaf(next)
                 THEN decode_loop(encoded_data, root, i + 1, root,
                                  Append(decoded, next.char))
                 ELSE decode_loop(encoded_data, root, i + 1, next, decoded)

\* HuffmanCompressor._decode_data
_decode_data(encoded_data, root) ==
    IF root = None THEN [status |-> "ok", decoded |-> <<>>]
    ELSE decode_loop(encoded_data, root, 1, root, <<>>)

\* ------------------------------------------------------- bits <-> bytes
\* int(byte, 2) of a bit string
RECURSIVE int2(_)
int2(bits) ==
    IF bits = <<>> THEN 0
    ELSE 2 * int2(SubSeq(bits, 1, Len(bits) - 1)) + bits[Len(bits)]

\* format(byte, '08b')
format08b(byte) == [i \in 1..8 |-> (byte \div (2 ^ (8 - i))) % 2]

\* the padding count reduced modulo 8
padding_of_mod8(encoded_data) == (8 - (Len(encoded_data) % 8)) % 8

\* line 141
padding_of(encoded_data) == 8 - (Len(encoded_data) % 8)

\* lines 142-143
pad(encoded_data, padding) ==
    IF padding # 8 THEN encoded_data \o [i \in 1..padding |-> 0]
    ELSE encoded_data

\* lines 146-149: encoded_data[i:i+8] for i in range(0, len, 8)
pack(encoded_data) ==
    [k \in 1..((Len(encoded_data) + 7) \div 8) |->
        int2(SubSeq(encoded_data, 8 * (k - 1) + 1,
                    IF 8 * k < Len(encoded_data) THEN 8 * k ELSE Len(encoded_data)))]

\* lines 204-206
RECURSIVE unpack(_, _)
unpack(encoded_bytes, n) ==
    IF n = 0 THEN <<>>
    ELSE unpack(encoded_bytes, n - 1) \o format08b(encoded_bytes[n])

\* the padding stripped without the test for 8
strip_padding_always(bit_string, padding) ==
    SubSeq(bit_string, 1, Len(bit_string) - padding)

\* lines 209-210: bit_string[:-padding] unless padding is 8
strip_padding(bit_string, padding) ==
    IF padding # 8
    THEN IF padding = 0 THEN <<>>
         ELSE SubSeq(bit_string, 1, Len(bit_string) - padding)
    ELSE bit_string

\* lines 152-158
compression_data(root, encoded_bytes, padding, data) ==
    [tree |-> root, encoded_data |-> encoded_bytes, padding |-> padding,
     original_size |-> Len(data), compressed_size |-> Len(encoded_bytes)]

\* lines 127-158 of compress_file, run alone on non-empty data
container_of(data) ==
    LET root == _build_huffman_tree(_build_frequency_table(data))
        codes == _generate_codes(root)
        encoded_data == _encode_data(data, codes)
        padding == padding_of(encoded_data)
    IN compression_data(root, pack(pad(encoded_data, padding)), padding, data)

\* ===================================================================== state
VARIABLES
    files,          \* the file system: path -> file
    origin,         \* history: path -> the data compress_file wrote it from
    root,           \* HuffmanCompressor.root
    codes,          \* HuffmanCompressor.codes
    reverse_codes,  \* HuffmanCompressor.reverse_codes
    result,         \* what the last call returned or raised
    pc,             \* position of the single invocation followed step by step
    data,           \* its local data
    freq_table,     \* its local freq_table
    heap,           \* the local heap of _build_huffman_tree
    encoded_data,   \* its local encoded_data, before padding
    inserted,       \* history: the nodes pushed on heap, in order of insertion
    pops,           \* history: the extractions of the last step
    thr             \* the locals of each concurrent invocation

vars == <<files, origin, root, codes, reverse_codes, result, pc, data,
          freq_table, heap, encoded_data, inserted, pops, thr>>

Paths == {"in", "c1", "c2", "dec"}
ContainerPaths == {"c1", "c2"}
Threads == {1, 2}

Absent == [kind |-> "absent"]
Raw(bytes) == [kind |-> "raw", bytes |-> bytes]
Pickle(obj) == [kind |-> "pickle", obj |-> obj]

NoResult == [op |-> "none"]
Raised(op, path, error) == [op |-> op, path |-> path, status |-> error]

\* root_read and codes_read hold the value of self.root / self.codes an
\* invocation has read inside line 133 / 134 and not yet used for the store
IdleThread == [pc |-> "idle", data |-> <<>>, out |-> "c1", status |-> "none",
               encoded_data |-> <<>>, compression_data |-> None,
               root_read |-> None, codes_read |-> EmptyDict]

\* the test for empty input left out
is_empty_never(d) == FALSE

\* line 123: not data
is_empty(d) == Len(d) = 0

\* the tree of the instance in the place of the container's
tree_used_self(c, self_root) == self_root

\* line 199: the tree decompress_file decodes with
tree_used(c, self_root) == c.tree

\* lines 199-213 of decompress_file on the loaded object
decoded_of(c, self_root) ==
    _decode_data(strip_padding(unpack(c.encoded_data, Len(c.encoded_data)), c.padding),
                 tree_used(c, self_root))

InitInstance ==
    /\ root = None
    /\ codes = EmptyDict
    /\ reverse_codes = EmptyDict
    /\ result = NoResult

InitLocals ==
    /\ pc = "idle"
    /\ data = <<>>
    /\ freq_table = <<>>
    /\ heap = <<>>
    /\ encoded_data = <<>>
    /\ inserted = <<>>
    /\ pops = <<>>

localvars == <<pc, data, freq_table, heap, encoded_data, inserted, pops>>
instvars == <<root, codes, reverse_codes>>

\* ------------------------------------------------- whole-handler operations
\* HuffmanCompressor.compress_file(inp, outp)
CompressFile(inp, outp) ==
    LET op == "compress_file"
        fail(e) == /\ result' = Raised(op, inp, e)
                   /\ UNCHANGED <<files, origin, root, codes, reverse_codes>>
    IN IF files[inp].kind = "absent" THEN fail("FileNotFoundError")
       ELSE LET d == files[inp].bytes
            IN IF is_empty(d) THEN fail("ValueError")
               ELSE IF Len(_build_frequency_table(d)) = 0 THEN fail("IndexError")
               ELSE LET r == _build_huffman_tree(_build_frequency_table(d))
                        cs == _generate_codes(r)
                        e == _encode_data(d, cs)
                        padding == padding_of(e)
                        c == compression_data(r, pack(pad(e, padding)), padding, d)
                    IN /\ root' = r
                       /\ codes' = cs
                       /\ reverse_codes' = reverse_of(cs)
                       /\ IF encodable(d, cs)
                          THEN /\ files' = [files EXCEPT ![outp] = Pickle(c)]
                               /\ origin' = [origin EXCEPT ![outp] = d]
                               /\ result' = [op |-> op, path |-> inp,
                                             status |-> "ok",
                                             compressed_file |-> outp,
                                             original_size |-> Len(d)]
                          ELSE /\ result' = Raised(op, inp, "KeyError")
                               /\ UNCHANGED <<files, origin>>

\* HuffmanCompressor.decompress_file(p, "dec")
DecompressFile(p) ==
    LET op == "decompress_file"
    IN /\ IF files[p].kind = "absent"
          THEN /\ result' = Raised(op, p, "FileNotFoundError")
               /\ files' = files
          ELSE LET c == files[p].obj
                   r == decoded_of(c, root)
               IN IF r.status = "ok"
                  THEN /\ files' = [files EXCEPT !["dec"] = Raw(r.decoded)]
                       /\ result' = [op |-> op, path |-> p, status |-> "ok",
                                     original_size |-> c.original_size,
                                     decompressed_size |-> Len(r.decoded)]
                  ELSE /\ files' = files
                       /\ result' = Raised(op, p, r.status)
       /\ UNCHANGED <<origin, root, codes, reverse_codes>>

\* ================================================================== Spec
\* One run of main(): compress_file on the file "in", followed through
\* _build_huffman_tree step by step, then decompress_file on its container.
Init ==
    /\ \E d \in Inputs :
          files = [p \in Paths |-> IF p = "in" THEN Raw(d) ELSE Absent]
    /\ origin = [p \in Paths |-> <<>>]
    /\ InitInstance
    /\ InitLocals
    /\ thr = [t \in Threads |-> IdleThread]

\* lines 108-127
ReadInput ==
    /\ pc = "idle"
    /\ LET d == files["in"].bytes
       IN IF is_empty(d)
          THEN /\ result' = Raised("compress_file", "in", "ValueError")
               /\ pc' = "done"
               /\ UNCHANGED <<data, freq_table>>
          ELSE /\ data' = d
               /\ freq_table' = _build_frequency_table(d)
               /\ pc' = IF Len(freq_table') = 0 THEN "merge" ELSE "push"
               /\ UNCHANGED result
    /\ UNCHANGED <<files, origin, root, codes, reverse_codes, heap,
                   encoded_data, inserted, pops, thr>>

\* lines 36-38, one iteration
PushLeaf ==
    /\ pc = "push"
    /\ LET item == freq_table[Len(heap) + 1]
           node == HuffmanNode(item[1], item[2], None, None)
       IN /\ heap' = heappush(heap, node)
          /\ inserted' = Append(inserted, node)
          /\ pc' = IF Len(heap') < Len(freq_table) THEN "push"
                   ELSE IF Len(heap') = 1 THEN "single" ELSE "merge"
    /\ pops' = <<>>
    /\ UNCHANGED <<files, origin, root, codes, reverse_codes, result, data,
                   freq_table, encoded_data, thr>>

\* lines 41-44, and the assignment of line 130
SingleChar ==
    /\ pc = "single"
    /\ root' = single_root(heap)
    /\ pops' = <<[heap |-> heap, item |-> heappop_item(heap)]>>
    /\ heap' = heappop_heap(heap)
    /\ pc' = "codes"
    /\ UNCHANGED <<files, origin, codes, reverse_codes, result, data,
                   freq_table, encoded_data, inserted, thr>>

\* lines 47-55, one iteration
MergeStep ==
    /\ pc = "merge"
    /\ Len(heap) > 1
    /\ LET h1 == heappop_heap(heap)
       IN /\ pops' = <<[heap |-> heap, item |-> heappop_item(heap)],
                       [heap |-> h1, item |-> heappop_item(h1)]>>
          /\ inserted' = Append(inserted,
                                merge_parent(heappop_item(heap), heappop_item(h1)))
    /\ heap' = merge_step(heap)
    /\ UNCHANGED <<files, origin, root, codes, reverse_codes, result, pc, data,
                   freq_table, encoded_data, thr>>

\* line 57, and the assignment of line 130
ReturnRoot ==
    /\ pc = "merge"
    /\ Len(heap) <= 1
    /\ IF Len(heap) = 0
       THEN /\ result' = Raised("compress_file", "in", "IndexError")
            /\ pc' = "done"
            /\ root' = root
       ELSE /\ root' = heap[1]
            /\ pc' = "codes"
            /\ result' = result
    /\ pops' = <<>>
    /\ UNCHANGED <<files, origin, codes, reverse_codes, data, freq_table, heap,
                   encoded_data, inserted, thr>>

\* lines 133-137
Encode ==
    /\ pc = "codes"
    /\ codes' = _generate_codes(root)
    /\ reverse_codes' = reverse_of(codes')
    /\ IF encodable(data, codes')
       THEN /\ encoded_data' = _encode_data(data, codes')
            /\ pc' = "pack"
            /\ result' = result
       ELSE /\ encoded_data' = encoded_data
            /\ pc' = "done"
            /\ result' = Raised("compress_file", "in", "KeyError")
    /\ UNCHANGED <<files, origin, root, data, freq_table, heap,
                   inserted, pops, thr>>

\* lines 141-176
WriteContainer ==
    /\ pc = "pack"
    /\ LET padding == padding_of(encoded_data)
           c == compression_data(root, pack(pad(encoded_data, padding)), padding, data)
       IN files' = [files EXCEPT !["c1"] = Pickle(c)]
    /\ origin' = [origin EXCEPT !["c1"] = data]
    /\ result' = [op |-> "compress_file", path |-> "in", status |-> "ok",
                  compressed_file |-> "c1", original_size |-> Len(data)]
    /\ pc' = "compressed"
    /\ UNCHANGED <<root, codes, reverse_codes, data, freq_table, heap,
                   encoded_data, inserted, pops, thr>>

\* the decompress_file call that follows
Decompress ==
    /\ pc = "compressed"
    /\ DecompressFile("c1")
    /\ pc' = "done"
    /\ UNCHANGED <<data, freq_table, heap, encoded_data, inserted, pops, thr>>

Next ==
    \/ ReadInput
    \/ PushLeaf
    \/ SingleChar
    \/ MergeStep
    \/ ReturnRoot
    \/ Encode
    \/ WriteContainer
    \/ Decompress

Spec == Init /\ [][Next]_vars

\* ============================================================ SpecSession
\* A session of main() on one HuffmanCompressor: the user offers an input
\* file, and calls compress_file and decompress_file in any order.
InitSession ==
    /\ files = [p \in Paths |-> Absent]
    /\ origin = [p \in Paths |-> <<>>]
    /\ InitInstance
    /\ InitLocals
    /\ thr = [t \in Threads |-> IdleThread]

\* the user puts a file at "in"
OfferInput ==
    /\ \E d \in SessionInputs : files' = [files EXCEPT !["in"] = Raw(d)]
    /\ result' = NoResult
    /\ UNCHANGED <<origin, root, codes, reverse_codes, localvars, thr>>

\* choice 1 of the menu
CallCompress ==
    /\ \E outp \in ContainerPaths : CompressFile("in", outp)
    /\ UNCHANGED <<localvars, thr>>

\* choice 2 of the menu
CallDecompress ==
    /\ \E p \in ContainerPaths : DecompressFile(p)
    /\ UNCHANGED <<localvars, thr>>

NextSession ==
    \/ OfferInput
    \/ CallCompress
    \/ CallDecompress

SpecSession == InitSession /\ [][NextSession]_vars

\* ============================================================= SpecDecode
\* decompress_file on a container file found on disk whose payload was cut
\* short or whose padding count was altered after compress_file wrote it.
Tampered ==
    UNION {{[c EXCEPT !.padding = p, !.encoded_data = SubSeq(@, 1, k)] :
               p \in 0..8, k \in 0..Len(c.encoded_data)} :
           c \in {container_of(d) : d \in SmallInputs}}

InitDecode ==
    /\ \E c \in Tampered :
          files = [p \in Paths |-> IF p = "c1" THEN Pickle(c) ELSE Absent]
    /\ origin = [p \in Paths |-> <<>>]
    /\ InitInstance
    /\ InitLocals
    /\ thr = [t \in Threads |-> IdleThread]

NextDecode == CallDecompress

SpecDecode == InitDecode /\ [][NextDecode]_vars

\* ============================================================ SpecThreads
\* Two compress_file invocations on one HuffmanCompressor, each with its own
\* input buffer and its own output path. Every read and every write of an
\* attribute of the instance, and every change of a file, is a step of its
\* own: another thread can run between the read of self.root and the store
\* of self.codes inside line 133, between the read of self.codes and the
\* store of self.reverse_codes inside line 134, and between the open() of
\* line 161, which leaves the file empty, and the pickle.dump of line 162.
InitThreads ==
    /\ files = [p \in Paths |-> Absent]
    /\ origin = [p \in Paths |-> <<>>]
    /\ InitInstance
    /\ InitLocals
    /\ \E d1, d2 \in SmallInputs :
          thr = [t \in Threads |->
                    [IdleThread EXCEPT !.pc = "l130",
                                       !.data = IF t = 1 THEN d1 ELSE d2,
                                       !.out = IF t = 1 THEN "c1" ELSE "c2"]]

\* lines 127-130: self.root = self._build_huffman_tree(freq_table)
T_BuildTree(t) ==
    /\ thr[t].pc = "l130"
    /\ root' = _build_huffman_tree(_build_frequency_table(thr[t].data))
    /\ thr' = [thr EXCEPT ![t].pc = "l133"]
    /\ UNCHANGED <<files, origin, codes, reverse_codes, result, localvars>>

\* line 133, the argument: self.root is read
T_ReadRoot(t) ==
    /\ thr[t].pc = "l133"
    /\ thr' = [thr EXCEPT ![t].pc = "l133:after-read-of-self.root",
                          ![t].root_read = root]
    /\ UNCHANGED <<files, origin, instvars, result, localvars>>

\* line 133, the call and the store: self.codes = _generate_codes(<root read>)
T_GenerateCodes(t) ==
    /\ thr[t].pc = "l133:after-read-of-self.root"
    /\ codes' = _generate_codes(thr[t].root_read)
    /\ thr' = [thr EXCEPT ![t].pc = "l134", ![t].root_read = None]
    /\ UNCHANGED <<files, origin, root, reverse_codes, result, localvars>>

\* line 134, the iterable: self.codes is read
T_ReadCodes(t) ==
    /\ thr[t].pc = "l134"
    /\ thr' = [thr EXCEPT ![t].pc = "l134:after-read-of-self.codes",
                          ![t].codes_read = codes]
    /\ UNCHANGED <<files, origin, instvars, result, localvars>>

\* line 134, the comprehension and the store of self.reverse_codes
T_ReverseCodes(t) ==
    /\ thr[t].pc = "l134:after-read-of-self.codes"
    /\ reverse_codes' = reverse_of(thr[t].codes_read)
    /\ thr' = [thr EXCEPT ![t].pc = "l137", ![t].codes_read = EmptyDict]
    /\ UNCHANGED <<files, origin, root, codes, result, localvars>>

\* line 137: encoded_data = self._encode_data(data, self.codes)
T_Encode(t) ==
    /\ thr[t].pc = "l137"
    /\ IF encodable(thr[t].data, codes)
       THEN thr' = [thr EXCEPT ![t].pc = "l152",
                               ![t].encoded_data = _encode_data(thr[t].data, codes)]
       ELSE thr' = [thr EXCEPT ![t].pc = "done", ![t].status = "KeyError"]
    /\ UNCHANGED <<files, origin, instvars, result, localvars>>

\* lines 141-158: padding, packing, and the dict that holds self.root
T_Assemble(t) ==
    /\ thr[t].pc = "l152"
    /\ LET e == thr[t].encoded_data
           padding == padding_of(e)
       IN thr' = [thr EXCEPT ![t].pc = "l161",
                             ![t].compression_data =
                                 compression_data(root, pack(pad(e, padding)),
                                                  padding, thr[t].data)]
    /\ UNCHANGED <<files, origin, instvars, result, localvars>>

\* line 161: open(output_path, 'wb') creates the file, or empties it
T_Open(t) ==
    /\ thr[t].pc = "l161"
    /\ files' = [files EXCEPT ![thr[t].out] = Raw(<<>>)]
    /\ thr' = [thr EXCEPT ![t].pc = "l162:after-open-before-dump"]
    /\ UNCHANGED <<origin, instvars, result, localvars>>

\* lines 162-176: pickle.dump into the open file, and the return
T_Dump(t) ==
    /\ thr[t].pc = "l162:after-open-before-dump"
    /\ files' = [files EXCEPT ![thr[t].out] = Pickle(thr[t].compression_data)]
    /\ origin' = [origin EXCEPT ![thr[t].out] = thr[t].data]
    /\ thr' = [thr EXCEPT ![t].pc = "done", ![t].status = "ok"]
    /\ UNCHANGED <<instvars, result, localvars>>

NextThreads ==
    \E t \in Threads :
        \/ T_BuildTree(t)
        \/ T_ReadRoot(t)
        \/ T_GenerateCodes(t)
        \/ T_ReadCodes(t)
        \/ T_ReverseCodes(t)
        \/ T_Encode(t)
        \/ T_Assemble(t)
        \/ T_Open(t)
        \/ T_Dump(t)

SpecThreads == InitThreads /\ [][NextThreads]_vars

\* ================================================================ properties
\* the number of occurrences of byte in d
Count(d, byte) == Cardinality({i \in 1..Len(d) : d[i] = byte})

BytesOf(d) == {d[i] : i \in 1..Len(d)}

IsPrefix(a, b) == Len(a) <= Len(b) /\ SubSeq(b, 1, Len(a)) = a

\* the position at which node n was pushed
Pos(n) == CHOOSE i \in 1..Len(inserted) : inserted[i] = n

MinFreq(h) == CHOOSE m \in {h[j].freq : j \in 1..Len(h)} :
                  \A j \in 1..Len(h) : m <= h[j].freq

RECURSIVE WellWeighted(_, _)
WellWeighted(n, d) ==
    IF is_leaf(n)
    THEN n.freq = Count(d, n.char) /\ n.left = None /\ n.right = None
    ELSE /\ n.left # None
         /\ n.freq = n.left.freq + (IF n.right = None THEN 0 ELSE n.right.freq)
         /\ WellWeighted(n.left, d)
         /\ n.right # None => WellWeighted(n.right, d)

Compressed == pc \in {"compressed", "done"} /\ files["c1"].kind = "pickle"
CodesBuilt == pc \in {"pack", "compressed", "done"} /\ data # <<>>

\* C1: compress_file followed by decompress_file on the container gives back
\* the input file, byte for byte and with the same length, for every
\* non-empty input.
C1_RoundTrip ==
    (pc = "done" /\ files["in"].bytes # <<>>) =>
        /\ result.op = "decompress_file"
        /\ result.status = "ok"
        /\ files["dec"] = Raw(files["in"].bytes)
        /\ result.decompressed_size = Len(files["in"].bytes)
        /\ result.original_size = Len(files["in"].bytes)

\* a round trip completed on an input that holds the byte 0 and whose
\* encoded bit length is a multiple of 8
C1_Witness ==
    /\ pc = "done"
    /\ files["dec"].kind = "raw"
    /\ 0 \in BytesOf(files["in"].bytes)
    /\ Len(encoded_data) > 0
    /\ Len(encoded_data) % 8 = 0

\* the last k bits of the payload are 0
LastBitsZero(payload, k) ==
    k > 0 => (Len(payload) > 0 /\ payload[Len(payload)] % (2 ^ k) = 0)

\* C4 as claimed: the stored padding count is (8 - L mod 8) mod 8, in 0..7,
\* and the payload has ceil(L/8) bytes whose last `padding` bits are 0.
C4_PaddingMod8 ==
    Compressed =>
        LET c == files["c1"].obj
            L == Len(encoded_data)
        IN /\ c.padding = (8 - (L % 8)) % 8
           /\ c.padding \in 0..7
           /\ Len(c.encoded_data) = (L + 7) \div 8
           /\ LastBitsZero(c.encoded_data, c.padding)

\* C4 amended: the stored padding count is 8 - (L mod 8), in 1..8, 8 standing
\* for "no bit appended"; the payload has ceil(L/8) bytes whose last
\* (padding mod 8) bits are 0.
C4_Padding ==
    Compressed =>
        LET c == files["c1"].obj
            L == Len(encoded_data)
        IN /\ c.padding = 8 - (L % 8)
           /\ c.padding \in 1..8
           /\ (c.padding = 8) <=> (L % 8 = 0)
           /\ Len(c.encoded_data) = (L + 7) \div 8
           /\ c.compressed_size = (L + 7) \div 8
           /\ LastBitsZero(c.encoded_data, c.padding % 8)

\* a container written for a bit sequence whose length is a multiple of 8
C4_Witness ==
    /\ Compressed
    /\ Len(encoded_data) % 8 = 0
    /\ files["c1"].obj.padding = 8

\* C5 as claimed: at every extraction the node taken has the minimum weight
\* and, among the nodes of that weight, is the one inserted earliest.
C5_FirstInsertedFirst ==
    \A k \in 1..Len(pops) :
        LET h == pops[k].heap
            it == pops[k].item
        IN /\ it.freq = MinFreq(h)
           /\ \A j \in 1..Len(h) : h[j].freq = it.freq => Pos(it) <= Pos(h[j])

\* C5 amended: at every extraction the node taken is the one at the root of
\* the binary heap, which has the minimum weight of the queue; among several
\* nodes of that weight it need not be the one inserted earliest.
C5_ExtractsMinimum ==
    \A k \in 1..Len(pops) :
        LET h == pops[k].heap
            it == pops[k].item
        IN /\ it = h[1]
           /\ it.freq = MinFreq(h)
           /\ \A j \in 1..Len(h) : it.freq <= h[j].freq

\* an extraction that passes over an earlier-inserted node of the same weight
C5_Witness ==
    \E k \in 1..Len(pops) :
        \E j \in 1..Len(pops[k].heap) :
            /\ pops[k].heap[j].freq = pops[k].item.freq
            /\ Pos(pops[k].heap[j]) < Pos(pops[k].item)

\* C7: the code book has one non-empty code per distinct byte of the input,
\* and no code is a prefix of, or equal to, the code of another byte.
C7_PrefixCode ==
    CodesBuilt =>
        /\ DOMAIN codes = BytesOf(data)
        /\ \A x \in DOMAIN codes : Len(codes[x]) >= 1
        /\ \A x \in DOMAIN codes : \A i \in 1..Len(codes[x]) : codes[x][i] \in {0, 1}
        /\ \A x, y \in DOMAIN codes : x # y => ~IsPrefix(codes[x], codes[y])

\* a code book of three or more codes of different lengths
C7_Witness ==
    /\ CodesBuilt
    /\ Cardinality(DOMAIN codes) >= 3
    /\ \E x, y \in DOMAIN codes : Len(codes[x]) < Len(codes[y])

\* C8: every node in the heap at every step, and the root returned, has as
\* weight the sum of its children's weights (a leaf: the count of its byte in
\* the input); the root's weight is the input length.
C8_WeightInvariant ==
    /\ \A j \in 1..Len(heap) : WellWeighted(heap[j], data)
    /\ root # None => (WellWeighted(root, data) /\ root.freq = Len(data))

\* an internal node sits in the heap with other nodes during the merge loop
C8_Witness ==
    /\ pc = "merge"
    /\ Len(heap) >= 2
    /\ \E j \in 1..Len(heap) : ~is_leaf(heap[j])

\* C9: a byte that occurs more often than another has a code no longer than
\* the other's.
C9_DepthMonotone ==
    CodesBuilt =>
        \A x, y \in DOMAIN codes :
            Count(data, x) > Count(data, y) => Len(codes[x]) <= Len(codes[y])

\* the code book of b"aaaabbbccd", where depth(a) < depth(d)
C9_Witness ==
    /\ CodesBuilt
    /\ data = Scenario
    /\ Len(codes[97]) <= Len(codes[98])
    /\ Len(codes[98]) <= Len(codes[99])
    /\ Len(codes[99]) <= Len(codes[100])
    /\ Len(codes[97]) < Len(codes[100])

\* C2: compress_file on a zero-length input raises ValueError and leaves
\* every file, the tree and the code books of the instance as they were.
C2_EmptyRejected ==
    [][(result'.op = "compress_file" /\ files["in"] = Raw(<<>>)) =>
          /\ result'.status = "ValueError"
          /\ files' = files
          /\ root' = root
          /\ codes' = codes
          /\ reverse_codes' = reverse_codes]_vars

\* an empty input was rejected while a container and a tree of earlier calls
\* exist
C2_Witness ==
    /\ result.op = "compress_file"
    /\ result.status = "ValueError"
    /\ files["in"] = Raw(<<>>)
    /\ files["c1"].kind = "pickle"
    /\ root # None

\* the bit sequence of container c, padding dropped, ends before
\* original_size bytes are produced, or its walk steps onto an absent child
EndsEarly(c) ==
    LET r == decoded_of(c, None)
    IN r.status # "ok" \/ Len(r.decoded) < c.original_size

\* C3 as claimed: decompress_file on such a container raises an error and
\* writes no output.
C3_TruncationReported ==
    (result.op = "decompress_file" /\ files[result.path].kind = "pickle"
        /\ EndsEarly(files[result.path].obj)) =>
        (result.status # "ok" /\ files["dec"] = Absent)

\* C6 as claimed: each of two interleaved invocations ends normally and
\* leaves a container that decompresses to its own input.
C6_OwnTreeAndCodes ==
    \A t \in Threads :
        thr[t].pc = "done" =>
            /\ thr[t].status = "ok"
            /\ files[thr[t].out].kind = "pickle"
            /\ decoded_of(files[thr[t].out].obj, None) =
                   [status |-> "ok", decoded |-> thr[t].data]

\* C10: decompress_file leaves root, codes and reverse_codes of the instance
\* as they were, and what it writes is the input of the compress_file call
\* that wrote the container, whatever was compressed since.
C10_DecompressFrame ==
    [][(result'.op = "decompress_file") =>
          /\ root' = root
          /\ codes' = codes
          /\ reverse_codes' = reverse_codes
          /\ files[result'.path].kind = "pickle" =>
                /\ result'.status = "ok"
                /\ files'["dec"] = Raw(origin[result'.path])
                /\ result'.decompressed_size = Len(origin[result'.path])]_vars

\* a container was decompressed to its own input after a later compress_file
\* call left another tree in the instance
C10_Witness ==
    /\ result.op = "decompress_file"
    /\ result.status = "ok"
    /\ files["dec"] = Raw(origin[result.path])
    /\ root # None
    /\ root # files[result.path].obj.tree

====
